---- MODULE Spec2Model ----
(***************************************************************************)
(* A model of anemo's connection manager                                   *)
(* (src/network/connection_manager.rs): the registry of active peers       *)
(* (ActivePeers / ActivePeersInner), its admission protocol and the        *)
(* simultaneous-dial tie-breaker.                                          *)
(*                                                                         *)
(* The specifications share the operators translated from the code:        *)
(*   Spec     one node: every interleaving of add, remove and              *)
(*            remove_with_stable_id on one registry (each call runs under  *)
(*            the write lock, so each is one atomic step);                 *)
(*   SpecTie  simultaneous_dial_tie_breaking applied to every argument     *)
(*            combination and to the swapped combinations;                 *)
(*   SpecNet  two nodes that dial each other at the same time;             *)
(*   SpecCalls  add, remove and subscribe calls on one registry, with the   *)
(*            log of the calls made;                                        *)
(*   SpecLoop the event loop of ConnectionManager::start with its mailbox,  *)
(*            incoming stream, handshake tasks and request handlers         *)
(*            (SpecLoopFair: the same, with the loop scheduled fairly).     *)
(***************************************************************************)
EXTENDS Integers, Sequences, FiniteSets

\* ------------------------------------------------------------- bounds
\* PeerIds are 1..MaxPeer, ordered as integers (PeerId is totally ordered).
MaxPeer == 3
\* Number of completed handshakes (NewConnection values) one node is given.
MaxSessions == 2
\* Number of logged registry calls (SpecCalls).
MaxCalls == 3
\* Number of handshakes the event loop is given, Connect requests and inbound
\* attempts together (SpecLoop).
MaxTasks == 2
\* Capacity of the mailbox channel.
MailboxCapacity == 128

PeerIds == 1..MaxPeer
StableIds == 1..MaxSessions

\* ------------------------------------------------------------- data
\* ConnectionOrigin
Origins == {"Inbound", "Outbound"}

\* DisconnectReason
Reasons == {"Requested", "ConnectionLost"}

\* A Connection handle: what the registry reads of it (peer_id(), origin(),
\* stable_id()).
Connection(p, o, s) == [peer_id |-> p, origin |-> o, stable_id |-> s]

\* Entry::Vacant: the HashMap has no value for the key.
Vacant == [peer_id |-> 0, origin |-> "Vacant", stable_id |-> 0]

\* Option::None, as returned by add.
None == [peer_id |-> 0, origin |-> "None", stable_id |-> 0]

\* PeerEvent::NewPeer(peer_id)
NewPeer(p) == [type |-> "NewPeer", peer_id |-> p, reason |-> "-"]

\* PeerEvent::LostPeer(peer_id, reason)
LostPeer(p, r) == [type |-> "LostPeer", peer_id |-> p, reason |-> r]

\* HashMap::default(): no key has a value.
EmptyMap == [p \in PeerIds |-> Vacant]

\* connections.keys()
peers(conns) == {p \in PeerIds : conns[p] # Vacant}

\* connections.get(peer_id).cloned()
get(conns, peer_id) == IF conns[peer_id] # Vacant THEN conns[peer_id] ELSE None

\* ------------------------------------------------------------- tie-breaker
\* Mutants of the tie-breaker (changed the way a slip in the code would).
tie_breaking_cross_swapped(own_peer_id, remote_peer_id, existing_origin, new_origin) ==
    CASE existing_origin = "Inbound" /\ new_origin = "Inbound" -> TRUE
      [] existing_origin = "Outbound" /\ new_origin = "Outbound" -> TRUE
      [] existing_origin = "Inbound" /\ new_origin = "Outbound" -> own_peer_id < remote_peer_id
      [] existing_origin = "Outbound" /\ new_origin = "Inbound" -> remote_peer_id < own_peer_id

tie_breaking_same_comparison(own_peer_id, remote_peer_id, existing_origin, new_origin) ==
    CASE existing_origin = "Inbound" /\ new_origin = "Inbound" -> TRUE
      [] existing_origin = "Outbound" /\ new_origin = "Outbound" -> TRUE
      [] existing_origin = "Inbound" /\ new_origin = "Outbound" -> remote_peer_id < own_peer_id
      [] existing_origin = "Outbound" /\ new_origin = "Inbound" -> remote_peer_id < own_peer_id

tie_breaking_outbound_always(own_peer_id, remote_peer_id, existing_origin, new_origin) ==
    CASE existing_origin = "Inbound" /\ new_origin = "Inbound" -> TRUE
      [] existing_origin = "Outbound" /\ new_origin = "Outbound" -> TRUE
      [] existing_origin = "Inbound" /\ new_origin = "Outbound" -> TRUE
      [] existing_origin = "Outbound" /\ new_origin = "Inbound" -> FALSE

\* ActivePeersInner::simultaneous_dial_tie_breaking: TRUE when the existing
\* connection is to be dropped, FALSE when the new one is.
simultaneous_dial_tie_breaking(own_peer_id, remote_peer_id, existing_origin, new_origin) ==
    CASE existing_origin = "Inbound" /\ new_origin = "Inbound" -> TRUE
      [] existing_origin = "Outbound" /\ new_origin = "Outbound" -> TRUE
      [] existing_origin = "Inbound" /\ new_origin = "Outbound" -> remote_peer_id < own_peer_id
      [] existing_origin = "Outbound" /\ new_origin = "Inbound" -> own_peer_id < remote_peer_id

\* ------------------------------------------------------------- registry
\* The effect of one registry call: the map afterwards, the stable ids of the
\* connections close() was invoked on, the events handed to send_event in
\* order, and the value returned.
Effect(conns, cl, ev, r) == [connections |-> conns, closed |-> cl, sent |-> ev, ret |-> r]

\* Mutants of the registry operations.
add_occupied_keeps_old_open(conns, own_peer_id, new_connection) ==
    LET peer_id == new_connection.peer_id
    IN  IF simultaneous_dial_tie_breaking(own_peer_id, peer_id,
                                          conns[peer_id].origin, new_connection.origin)
        THEN Effect([conns EXCEPT ![peer_id] = new_connection],
                    {},
                    <<LostPeer(peer_id, "Requested")>>,
                    new_connection)
        ELSE Effect(conns, {new_connection.stable_id}, <<>>, None)

add_occupied_no_lost_event(conns, own_peer_id, new_connection) ==
    LET peer_id == new_connection.peer_id
    IN  IF simultaneous_dial_tie_breaking(own_peer_id, peer_id,
                                          conns[peer_id].origin, new_connection.origin)
        THEN Effect([conns EXCEPT ![peer_id] = new_connection],
                    {conns[peer_id].stable_id},
                    <<>>,
                    new_connection)
        ELSE Effect(conns, {new_connection.stable_id}, <<>>, None)

add_occupied_reject_says_some(conns, own_peer_id, new_connection) ==
    LET peer_id == new_connection.peer_id
    IN  IF simultaneous_dial_tie_breaking(own_peer_id, peer_id,
                                          conns[peer_id].origin, new_connection.origin)
        THEN Effect([conns EXCEPT ![peer_id] = new_connection],
                    {conns[peer_id].stable_id},
                    <<LostPeer(peer_id, "Requested")>>,
                    new_connection)
        ELSE Effect(conns, {new_connection.stable_id}, <<>>, new_connection)

\* ActivePeersInner::add, the Entry::Occupied arm (before the common tail):
\* the tie-breaker either swaps the entry and closes the old connection, or
\* closes the new connection and returns None early.
add_occupied(conns, own_peer_id, new_connection) ==
    LET peer_id == new_connection.peer_id
    IN  IF simultaneous_dial_tie_breaking(own_peer_id, peer_id,
                                          conns[peer_id].origin, new_connection.origin)
        THEN Effect([conns EXCEPT ![peer_id] = new_connection],
                    {conns[peer_id].stable_id},
                    <<LostPeer(peer_id, "Requested")>>,
                    new_connection)
        ELSE Effect(conns, {new_connection.stable_id}, <<>>, None)

add_vacant_no_insert(conns, own_peer_id, new_connection) ==
    Effect(conns, {}, <<>>, new_connection)

\* ActivePeersInner::add, the Entry::Vacant arm: insert.
add_vacant(conns, own_peer_id, new_connection) ==
    Effect([conns EXCEPT ![new_connection.peer_id] = new_connection],
           {}, <<>>, new_connection)

add_event_even_if_rejected(conns, own_peer_id, new_connection) ==
    LET peer_id == new_connection.peer_id
        arm == IF conns[peer_id] # Vacant
               THEN add_occupied(conns, own_peer_id, new_connection)
               ELSE add_vacant(conns, own_peer_id, new_connection)
    IN  [arm EXCEPT !.sent = Append(@, NewPeer(peer_id))]

\* ActivePeersInner::add: the arm for the entry, then, unless the arm
\* returned None, send NewPeer and return Some(new_connection).
add(conns, own_peer_id, new_connection) ==
    LET peer_id == new_connection.peer_id
        arm == IF conns[peer_id] # Vacant
               THEN add_occupied(conns, own_peer_id, new_connection)
               ELSE add_vacant(conns, own_peer_id, new_connection)
    IN  IF arm.ret = None
        THEN arm
        ELSE [arm EXCEPT !.sent = Append(@, NewPeer(peer_id))]

remove_sends_no_event(conns, peer_id, reason) ==
    IF conns[peer_id] # Vacant
    THEN Effect([conns EXCEPT ![peer_id] = Vacant],
                {conns[peer_id].stable_id},
                <<>>,
                None)
    ELSE Effect(conns, {}, <<>>, None)

remove_always_sends(conns, peer_id, reason) ==
    IF conns[peer_id] # Vacant
    THEN Effect([conns EXCEPT ![peer_id] = Vacant],
                {conns[peer_id].stable_id},
                <<LostPeer(peer_id, reason)>>,
                None)
    ELSE Effect(conns, {}, <<LostPeer(peer_id, reason)>>, None)

\* ActivePeersInner::remove
remove(conns, peer_id, reason) ==
    IF conns[peer_id] # Vacant
    THEN Effect([conns EXCEPT ![peer_id] = Vacant],
                {conns[peer_id].stable_id},
                <<LostPeer(peer_id, reason)>>,
                None)
    ELSE Effect(conns, {}, <<>>, None)

remove_with_stable_id_ignores_id(conns, peer_id, stable_id, reason) ==
    remove(conns, peer_id, reason)

\* ActivePeersInner::remove_with_stable_id
remove_with_stable_id(conns, peer_id, stable_id, reason) ==
    IF conns[peer_id] # Vacant /\ conns[peer_id].stable_id = stable_id
    THEN Effect([conns EXCEPT ![peer_id] = Vacant],
                {conns[peer_id].stable_id},
                <<LostPeer(peer_id, reason)>>,
                None)
    ELSE Effect(conns, {}, <<>>, None)

subscribe_receiver_first(conns, evs) ==
    [initial_peers |-> peers(conns),
     next |-> IF Len(evs) > 0 THEN Len(evs) - 1 ELSE 0]

\* ActivePeersInner::subscribe, given the map and the events sent so far: the
\* snapshot of the keys, and a receiver that gets what is sent from now on
\* (next: how many events were sent before it was created).
subscribe(conns, evs) == [initial_peers |-> peers(conns), next |-> Len(evs)]

\* ------------------------------------------------------------- state
VARIABLES
    \* one node (Spec)
    own,             \* this node's PeerId (endpoint.peer_id())
    connections,     \* ActivePeersInner.connections
    events,          \* every PeerEvent handed to peer_event_sender, in order
    closed,          \* stable ids of the connections the registry called close() on
    passed,          \* the connections ever passed to add
    next_stable_id,  \* stable id of the next completed handshake
    ret,             \* what the last call of add returned
    race,            \* per peer: what add was given since the peer was last absent
    \* the tie-breaker alone (SpecTie)
    tie,             \* the arguments, and the calls made with their results
    \* two nodes dialing each other (SpecNet)
    net_pair,        \* the PeerIds of the two nodes
    net_sid,         \* net_sid[n][d]: node n's stable id of the session dialed by d
    net_reg,         \* net_reg[n]: node n's registry, events sent and closed ids
    net_hs,          \* net_hs[n][d]: node n's handshake of the session dialed by d
    net_handler,     \* net_handler[n][d]: node n's request handler of that session
    \* registry calls with their log (SpecCalls)
    log,             \* the calls made, each with the map before it and its effect
    sub,             \* what subscribe returned: initial peers, receiver position
    \* the event loop (SpecLoop)
    lp_pc,           \* where the ConnectionManager is: new, select, reply, returned, dropped
    mailbox,         \* the request channel: queued requests, sender alive, requests sent
    incoming,        \* the Incoming stream: attempts waiting, stream open, attempts so far
    fused,           \* which of the three select! branches are terminated
    tasks,           \* every handshake task spawned, by id, with its state and output
    cur,             \* the reply handle_connecting_result still has to send
    replies,         \* the replies sent on the requests' oneshot channels, in order
    spawned,         \* the connections handed to a spawned InboundRequestHandler
    exited           \* stable ids of the handlers that have ended

regVars == <<own, connections, events, closed, passed, next_stable_id, ret, race>>
tieVars == <<tie>>
netVars == <<net_pair, net_sid, net_reg, net_hs, net_handler>>
callVars == <<log, sub>>
loopVars == <<lp_pc, mailbox, incoming, fused, tasks, cur, replies, spawned, exited>>
vars == <<regVars, tieVars, netVars, callVars, loopVars>>

NoRace(mark) == [adds |-> <<>>, mark |-> mark]

\* ActivePeers::new: an empty registry; no handshake has completed.
RegInit ==
    /\ own \in PeerIds
    /\ connections = EmptyMap
    /\ events = <<>>
    /\ closed = {}
    /\ passed = {}
    /\ next_stable_id = 1
    /\ ret = None
    /\ race = [p \in PeerIds |-> NoRace(0)]

\* The parts of the state a specification does not use stay as they are here.
RegIdle ==
    /\ own = 1
    /\ connections = EmptyMap
    /\ events = <<>>
    /\ closed = {}
    /\ passed = {}
    /\ next_stable_id = 1
    /\ ret = None
    /\ race = [p \in PeerIds |-> NoRace(0)]

TieIdle == tie = [own |-> 1, remote |-> 1, existing |-> "Inbound", new |-> "Inbound",
                  calls |-> {}]

NetIdle ==
    /\ net_pair = {}
    /\ net_sid = <<>>
    /\ net_reg = <<>>
    /\ net_hs = <<>>
    /\ net_handler = <<>>

\* No subscriber.
NoSub == [initial_peers |-> {}, next |-> -1]

CallIdle ==
    /\ log = <<>>
    /\ sub = NoSub

\* No reply to send.
NoCur == [task |-> 0, peer_id |-> 0, oneshot |-> 0, was_key |-> FALSE]

LoopIdle ==
    /\ lp_pc = "none"
    /\ mailbox = [queue |-> <<>>, open |-> FALSE, sent |-> 0]
    /\ incoming = [waiting |-> 0, open |-> FALSE, arrived |-> 0]
    /\ fused = [mailbox |-> FALSE, incoming |-> FALSE, pending |-> FALSE]
    /\ tasks = <<>>
    /\ cur = NoCur
    /\ replies = <<>>
    /\ spawned = {}
    /\ exited = {}

Init == RegInit /\ TieIdle /\ NetIdle /\ CallIdle /\ LoopIdle

\* One registry call's effect on the node's state.
Apply(eff) ==
    /\ connections' = eff.connections
    /\ events' = events \o eff.sent
    /\ closed' = closed \cup eff.closed

\* race after a call for peer p: a removal of p starts a new history.
RaceAfterRemoval(p, eff) ==
    IF eff.connections[p] = Vacant /\ connections[p] # Vacant
    THEN [race EXCEPT ![p] = NoRace(Len(events) + Len(eff.sent))]
    ELSE race

\* ActivePeers::add with a completed handshake of any peer and origin (under
\* the write lock): the registry's part of the state.
AdmitReg(p, o) ==
    /\ next_stable_id <= MaxSessions
    /\ LET nc == Connection(p, o, next_stable_id)
           eff == add(connections, own, nc)
       IN  /\ Apply(eff)
           /\ passed' = passed \cup {nc}
           /\ next_stable_id' = next_stable_id + 1
           /\ ret' = eff.ret
           /\ race' = [race EXCEPT ![p].adds = Append(@, nc)]
    /\ UNCHANGED own

\* ActivePeers::add, called by ConnectionManager::add_peer.
Admit(p, o) == AdmitReg(p, o) /\ UNCHANGED <<tieVars, netVars, callVars, loopVars>>

\* ActivePeers::remove (under the write lock): the registry's part of the
\* state.
RemoveReg(p, reason) ==
    /\ LET eff == remove(connections, p, reason)
       IN  /\ Apply(eff)
           /\ race' = RaceAfterRemoval(p, eff)
    /\ UNCHANGED <<own, passed, next_stable_id, ret>>

\* ActivePeers::remove.
Remove(p, reason) == RemoveReg(p, reason) /\ UNCHANGED <<tieVars, netVars, callVars, loopVars>>

\* ActivePeers::remove_with_stable_id (under the write lock), as a
\* per-connection handler calls it with its own session's stable id: any
\* session handed out so far, current or stale, and any peer.
RemoveWithStableId(p, s, reason) ==
    /\ s < next_stable_id
    /\ LET eff == remove_with_stable_id(connections, p, s, reason)
       IN  /\ Apply(eff)
           /\ race' = RaceAfterRemoval(p, eff)
    /\ UNCHANGED <<own, passed, next_stable_id, ret, tieVars, netVars, callVars, loopVars>>

Next ==
    \/ \E p \in PeerIds, o \in Origins : Admit(p, o)
    \/ \E p \in PeerIds, r \in Reasons : Remove(p, r)
    \/ \E p \in PeerIds, s \in StableIds, r \in Reasons : RemoveWithStableId(p, s, r)

Spec == Init /\ [][Next]_vars

\* ------------------------------------------------------------- SpecTie
\* One call of simultaneous_dial_tie_breaking, with what it returned.
TieEval(o, r, e, n) ==
    [own |-> o, remote |-> r, existing |-> e, new |-> n,
     result |-> simultaneous_dial_tie_breaking(o, r, e, n)]

\* Any own and remote PeerId (equal ones too) and any two origins.
TieInit ==
    /\ tie \in [own : PeerIds, remote : PeerIds, existing : Origins, new : Origins,
                calls : {{}}]
    /\ RegIdle
    /\ NetIdle
    /\ CallIdle
    /\ LoopIdle

\* The tie-breaker is called with the arguments as they are.
TieCall ==
    /\ tie' = [tie EXCEPT !.calls = @ \cup
                 {TieEval(tie.own, tie.remote, tie.existing, tie.new)}]
    /\ UNCHANGED <<regVars, netVars, callVars, loopVars>>

\* ... with the two origins swapped (the two sessions arrived in the other order).
TieCallSwappedOrigins ==
    /\ tie' = [tie EXCEPT !.calls = @ \cup
                 {TieEval(tie.own, tie.remote, tie.new, tie.existing)}]
    /\ UNCHANGED <<regVars, netVars, callVars, loopVars>>

\* ... with own and remote swapped.
TieCallSwappedPeers ==
    /\ tie' = [tie EXCEPT !.calls = @ \cup
                 {TieEval(tie.remote, tie.own, tie.existing, tie.new)}]
    /\ UNCHANGED <<regVars, netVars, callVars, loopVars>>

\* ... with both swapped: the remote node's call for the same race.
TieCallOtherEnd ==
    /\ tie' = [tie EXCEPT !.calls = @ \cup
                 {TieEval(tie.remote, tie.own, tie.new, tie.existing)}]
    /\ UNCHANGED <<regVars, netVars, callVars, loopVars>>

TieNext ==
    \/ TieCall
    \/ TieCallSwappedOrigins
    \/ TieCallSwappedPeers
    \/ TieCallOtherEnd

SpecTie == TieInit /\ [][TieNext]_vars

\* ------------------------------------------------------------- SpecNet
\* Two nodes each dial the other. A physical session is named by its dialer:
\* the session dialed by d is Outbound at d and Inbound at the other node.

\* The other node of the pair.
Other(n) == CHOOSE m \in net_pair : m # n

\* The Connection handle node n holds of the session dialed by d.
NetView(n, d) ==
    Connection(Other(n), IF d = n THEN "Outbound" ELSE "Inbound", net_sid[n][d])

\* close() was invoked on the session dialed by d, at either end.
SessionClosed(d) == \E m \in net_pair : net_sid[m][d] \in net_reg[m].closed

\* Two different peers; at each node both handshakes have completed and wait
\* in pending_connections; each node numbered its two sessions on its own.
NetInit ==
    /\ net_pair \in {pr \in SUBSET PeerIds : Cardinality(pr) = 2}
    /\ net_sid \in [net_pair -> {f \in [net_pair -> 1..2] :
                                   \A d1, d2 \in net_pair : d1 # d2 => f[d1] # f[d2]}]
    /\ net_reg = [n \in net_pair |-> [connections |-> EmptyMap, events |-> <<>>,
                                      closed |-> {}]]
    /\ net_hs = [n \in net_pair |-> [d \in net_pair |-> "ready"]]
    /\ net_handler = [n \in net_pair |-> [d \in net_pair |-> "none"]]
    /\ RegIdle
    /\ TieIdle
    /\ CallIdle
    /\ LoopIdle

\* Node n's registry after one call.
NetApply(n, eff) ==
    net_reg' = [net_reg EXCEPT ![n] = [connections |-> eff.connections,
                                       events |-> @.events \o eff.sent,
                                       closed |-> @.closed \cup eff.closed]]

\* ConnectionManager::handle_connecting_result at node n for the completed
\* handshake of the session dialed by d: add_peer calls add with the node's
\* own PeerId and spawns the request handler when add returns Some.
NetAdmit(n, d) ==
    /\ net_hs[n][d] = "ready"
    /\ LET eff == add(net_reg[n].connections, n, NetView(n, d))
       IN  /\ NetApply(n, eff)
           /\ net_handler' = [net_handler EXCEPT ![n][d] =
                                 IF eff.ret # None THEN "running" ELSE "none"]
    /\ net_hs' = [net_hs EXCEPT ![n][d] = "processed"]
    /\ UNCHANGED <<net_pair, net_sid, regVars, tieVars, callVars, loopVars>>

\* Node n's request handler of the session dialed by d sees the session
\* closed and ends: it calls remove_with_stable_id with its session's id.
NetHandlerExit(n, d) ==
    /\ net_handler[n][d] = "running"
    /\ SessionClosed(d)
    /\ NetApply(n, remove_with_stable_id(net_reg[n].connections, Other(n),
                                         net_sid[n][d], "ConnectionLost"))
    /\ net_handler' = [net_handler EXCEPT ![n][d] = "exited"]
    /\ UNCHANGED <<net_pair, net_sid, net_hs, regVars, tieVars, callVars, loopVars>>

NetNext ==
    \/ \E n \in net_pair, d \in net_pair : NetAdmit(n, d)
    \/ \E n \in net_pair, d \in net_pair : NetHandlerExit(n, d)

SpecNet == NetInit /\ [][NetNext]_vars

\* ------------------------------------------------------------- SpecCalls
\* One logged call: the map before it, what it sent and what it closed.
Call(op, p, reason, before, eff) ==
    [op |-> op, peer_id |-> p, reason |-> reason, before |-> before,
     sent |-> eff.sent, shut |-> eff.closed]

CallInit == RegInit /\ TieIdle /\ NetIdle /\ CallIdle /\ LoopIdle

\* ActivePeers::add, logged.
CallAdd(p, o) ==
    /\ Len(log) < MaxCalls
    /\ AdmitReg(p, o)
    /\ log' = Append(log, Call("add", p, "-", connections,
                               add(connections, own, Connection(p, o, next_stable_id))))
    /\ UNCHANGED <<sub, tieVars, netVars, loopVars>>

\* ActivePeers::remove, logged.
CallRemove(p, reason) ==
    /\ Len(log) < MaxCalls
    /\ RemoveReg(p, reason)
    /\ log' = Append(log, Call("remove", p, reason, connections,
                               remove(connections, p, reason)))
    /\ UNCHANGED <<sub, tieVars, netVars, loopVars>>

\* ActivePeers::subscribe (under the read lock, so between two mutations).
CallSubscribe ==
    /\ sub = NoSub
    /\ sub' = subscribe(connections, events)
    /\ UNCHANGED <<log, regVars, tieVars, netVars, loopVars>>

CallNext ==
    \/ \E p \in PeerIds, o \in Origins : CallAdd(p, o)
    \/ \E p \in PeerIds, r \in Reasons : CallRemove(p, r)
    \/ CallSubscribe

SpecCalls == CallInit /\ [][CallNext]_vars

\* ------------------------------------------------------------- SpecLoop
\* The event loop of ConnectionManager::start on one node, with what runs
\* beside it: the senders of the mailbox, the Incoming stream, the spawned
\* handshake tasks and the spawned request handlers.

\* A handshake that has not resolved yet, and one that resolved to Err(e).
Unresolved == [peer_id |-> 0, origin |-> "Unresolved", stable_id |-> 0]
Failed == [peer_id |-> 0, origin |-> "Err", stable_id |-> 0]

\* A spawned handshake task behind its JoinHandle: the ConnectingOutput it
\* resolves to is connecting_result |-> result with maybe_oneshot |-> oneshot
\* (0 is None).  admitted records what add returned for its connection.
Task(id, oneshot, origin, state, result) ==
    [id |-> id, oneshot |-> oneshot, origin |-> origin, state |-> state,
     result |-> result, admitted |-> FALSE]

\* pending_connections: the tasks whose JoinHandle is in the FuturesUnordered.
Pending == {i \in DOMAIN tasks : tasks[i].state \in {"running", "ready"}}

\* Dropping a JoinHandle without aborting: the task is detached.
JoinHandle_drop_detaches(task) == task

\* impl Drop for JoinHandle: abort the task.
JoinHandle_drop(task) ==
    IF task.state \in {"running", "ready"}
    THEN [task EXCEPT !.state = "aborted"]
    ELSE task

\* A loop that stops as soon as no request and no attempt can arrive.
select_complete_ignores_pending(f) == f.mailbox /\ f.incoming

\* select!'s complete arm: every branch's stream is terminated.
select_complete(f) == f.mailbox /\ f.incoming /\ f.pending

\* An add_peer that spawns a handler whatever add returned.
add_peer_always_spawns(conns, own_peer_id, new_connection) ==
    [eff |-> add(conns, own_peer_id, new_connection), spawned |-> {new_connection}]

\* ConnectionManager::add_peer: add under the write lock, then spawn an
\* InboundRequestHandler for the connection add returned, if it returned one.
add_peer(conns, own_peer_id, new_connection) ==
    LET eff == add(conns, own_peer_id, new_connection)
    IN  [eff |-> eff, spawned |-> IF eff.ret # None THEN {eff.ret} ELSE {}]

\* A reply that reports a lost tie-break as an error.
connect_reply_err_when_rejected(connecting_result, admitted) ==
    IF connecting_result # Failed /\ admitted
    THEN [ok |-> TRUE, peer_id |-> connecting_result.peer_id]
    ELSE [ok |-> FALSE, peer_id |-> 0]

\* The value handle_connecting_result sends on the oneshot: Ok(peer_id) for
\* Ok(connection), Err(e) for Err(e); what add returned plays no part.
connect_reply(connecting_result, admitted) ==
    IF connecting_result # Failed
    THEN [ok |-> TRUE, peer_id |-> connecting_result.peer_id]
    ELSE [ok |-> FALSE, peer_id |-> 0]

\* A reply sent on request's oneshot channel.  was_key: the peer was a key of
\* the registry when add returned; connected: it is one as the reply is sent.
Reply(request, task, value, was_key, connected) ==
    [request |-> request, task |-> task, ok |-> value.ok, peer_id |-> value.peer_id,
     was_key |-> was_key, connected |-> connected]

Arrivals == mailbox.sent + incoming.arrived

\* The remote peer of the loop's handshakes.  The registry treats its keys
\* independently (Spec runs it with every peer); the loop runs with one remote
\* peer, dialled and dialling, so that every handshake after the first meets
\* the registry's entry for its peer.
LoopPeers == {MaxPeer}

LoopInit ==
    /\ RegInit
    /\ own = MaxPeer - 1
    /\ TieIdle
    /\ NetIdle
    /\ CallIdle
    /\ lp_pc = "new"
    /\ mailbox = [queue |-> <<>>, open |-> TRUE, sent |-> 0]
    /\ incoming = [waiting |-> 0, open |-> TRUE, arrived |-> 0]
    /\ fused = [mailbox |-> FALSE, incoming |-> FALSE, pending |-> FALSE]
    /\ tasks = <<>>
    /\ cur = NoCur
    /\ replies = <<>>
    /\ spawned = {}
    /\ exited = {}

\* A holder of the mailbox's sender sends a Connect request.
SendConnect ==
    /\ mailbox.open
    /\ lp_pc \notin {"returned", "dropped"}
    /\ Arrivals < MaxTasks
    /\ Len(mailbox.queue) < MailboxCapacity
    /\ mailbox' = [mailbox EXCEPT !.queue = Append(@, mailbox.sent + 1),
                                  !.sent = @ + 1]
    /\ UNCHANGED <<lp_pc, incoming, fused, tasks, cur, replies, spawned, exited,
                   regVars, tieVars, netVars, callVars>>

\* The last sender of the mailbox is dropped.
CloseMailbox ==
    /\ mailbox.open
    /\ mailbox' = [mailbox EXCEPT !.open = FALSE]
    /\ UNCHANGED <<lp_pc, incoming, fused, tasks, cur, replies, spawned, exited,
                   regVars, tieVars, netVars, callVars>>

\* A remote endpoint starts a connection attempt.
InboundArrives ==
    /\ incoming.open
    /\ lp_pc \notin {"returned", "dropped"}
    /\ Arrivals < MaxTasks
    /\ incoming' = [incoming EXCEPT !.waiting = @ + 1, !.arrived = @ + 1]
    /\ UNCHANGED <<lp_pc, mailbox, fused, tasks, cur, replies, spawned, exited,
                   regVars, tieVars, netVars, callVars>>

\* The endpoint is closed: the Incoming stream ends.
IncomingEnds ==
    /\ incoming.open
    /\ incoming' = [incoming EXCEPT !.open = FALSE]
    /\ UNCHANGED <<lp_pc, mailbox, fused, tasks, cur, replies, spawned, exited,
                   regVars, tieVars, netVars, callVars>>

\* ConnectionManager::start is called.
Start ==
    /\ lp_pc = "new"
    /\ lp_pc' = "select"
    /\ UNCHANGED <<mailbox, incoming, fused, tasks, cur, replies, spawned, exited,
                   regVars, tieVars, netVars, callVars>>

\* select! takes a request from the mailbox: handle_connect_request spawns
\* the dial (already failed when endpoint.connect returned an error) and
\* pushes its JoinHandle, which un-terminates the pending set.
LoopConnectRequest(fails) ==
    /\ lp_pc = "select"
    /\ ~fused.mailbox
    /\ mailbox.queue # <<>>
    /\ mailbox' = [mailbox EXCEPT !.queue = Tail(@)]
    /\ tasks' = Append(tasks, Task(Len(tasks) + 1, Head(mailbox.queue), "Outbound",
                                   IF fails THEN "ready" ELSE "running",
                                   IF fails THEN Failed ELSE Unresolved))
    /\ fused' = [fused EXCEPT !.pending = FALSE]
    /\ UNCHANGED <<lp_pc, incoming, cur, replies, spawned, exited,
                   regVars, tieVars, netVars, callVars>>

\* select! finds the mailbox closed and drained: its Fuse is done.
LoopMailboxClosed ==
    /\ lp_pc = "select"
    /\ ~fused.mailbox
    /\ mailbox.queue = <<>>
    /\ ~mailbox.open
    /\ fused' = [fused EXCEPT !.mailbox = TRUE]
    /\ UNCHANGED <<lp_pc, mailbox, incoming, tasks, cur, replies, spawned, exited,
                   regVars, tieVars, netVars, callVars>>

\* select! takes an attempt from the incoming stream: handle_incoming spawns
\* its handshake, without a reply channel, and pushes its JoinHandle.
LoopIncoming ==
    /\ lp_pc = "select"
    /\ ~fused.incoming
    /\ incoming.waiting > 0
    /\ incoming' = [incoming EXCEPT !.waiting = @ - 1]
    /\ tasks' = Append(tasks, Task(Len(tasks) + 1, 0, "Inbound", "running", Unresolved))
    /\ fused' = [fused EXCEPT !.pending = FALSE]
    /\ UNCHANGED <<lp_pc, mailbox, cur, replies, spawned, exited,
                   regVars, tieVars, netVars, callVars>>

\* select! finds the incoming stream ended: its Fuse is done.
LoopIncomingEnded ==
    /\ lp_pc = "select"
    /\ ~fused.incoming
    /\ incoming.waiting = 0
    /\ ~incoming.open
    /\ fused' = [fused EXCEPT !.incoming = TRUE]
    /\ UNCHANGED <<lp_pc, mailbox, incoming, tasks, cur, replies, spawned, exited,
                   regVars, tieVars, netVars, callVars>>

\* A spawned handshake completes with a connection to peer p; the session
\* gets the next stable id.
TaskResolveOk(i, p) ==
    /\ i \in DOMAIN tasks
    /\ tasks[i].state = "running"
    /\ next_stable_id <= MaxSessions
    /\ tasks' = [tasks EXCEPT ![i].state = "ready",
                              ![i].result = Connection(p, tasks[i].origin, next_stable_id)]
    /\ next_stable_id' = next_stable_id + 1
    /\ UNCHANGED <<own, connections, events, closed, passed, ret, race,
                   lp_pc, mailbox, incoming, fused, cur, replies, spawned, exited,
                   tieVars, netVars, callVars>>

\* A spawned handshake fails.
TaskResolveErr(i) ==
    /\ i \in DOMAIN tasks
    /\ tasks[i].state = "running"
    /\ tasks' = [tasks EXCEPT ![i].state = "ready", ![i].result = Failed]
    /\ UNCHANGED <<lp_pc, mailbox, incoming, fused, cur, replies, spawned, exited,
                   regVars, tieVars, netVars, callVars>>

\* select! takes a completed handshake with Ok(connection):
\* handle_connecting_result calls add_peer; the reply, if the handshake came
\* from a Connect request, is sent after add_peer has released the lock.
LoopResultOk(i) ==
    /\ lp_pc = "select"
    /\ ~fused.pending
    /\ i \in DOMAIN tasks
    /\ tasks[i].state = "ready"
    /\ tasks[i].result # Failed
    /\ LET nc == tasks[i].result
           r == add_peer(connections, own, nc)
       IN  /\ Apply(r.eff)
           /\ passed' = passed \cup {nc}
           /\ ret' = r.eff.ret
           /\ race' = [race EXCEPT ![nc.peer_id].adds = Append(@, nc)]
           /\ spawned' = spawned \cup r.spawned
           /\ tasks' = [tasks EXCEPT ![i].state = "consumed",
                                     ![i].admitted = (r.eff.ret # None)]
           /\ IF tasks[i].oneshot # 0
              THEN /\ lp_pc' = "reply"
                   /\ cur' = [task |-> i, peer_id |-> nc.peer_id,
                              oneshot |-> tasks[i].oneshot,
                              was_key |-> nc.peer_id \in peers(r.eff.connections)]
              ELSE UNCHANGED <<lp_pc, cur>>
    /\ UNCHANGED <<own, next_stable_id, mailbox, incoming, fused, replies, exited,
                   tieVars, netVars, callVars>>

\* handle_connecting_result sends Ok(peer_id) on the oneshot.
LoopSendReply ==
    /\ lp_pc = "reply"
    /\ replies' = Append(replies,
                         Reply(cur.oneshot, cur.task,
                               connect_reply(tasks[cur.task].result,
                                             tasks[cur.task].admitted),
                               cur.was_key, cur.peer_id \in peers(connections)))
    /\ lp_pc' = "select"
    /\ cur' = NoCur
    /\ UNCHANGED <<mailbox, incoming, fused, tasks, spawned, exited,
                   regVars, tieVars, netVars, callVars>>

\* A handle_connecting_result that swallows the error.
LoopResultErr_no_reply(i) ==
    /\ lp_pc = "select"
    /\ ~fused.pending
    /\ i \in DOMAIN tasks
    /\ tasks[i].state = "ready"
    /\ tasks[i].result = Failed
    /\ tasks' = [tasks EXCEPT ![i].state = "consumed"]
    /\ UNCHANGED <<lp_pc, mailbox, incoming, fused, cur, replies, spawned, exited,
                   regVars, tieVars, netVars, callVars>>

\* select! takes a completed handshake with Err(e): handle_connecting_result
\* forwards the error on the oneshot, if there is one.
LoopResultErr(i) ==
    /\ lp_pc = "select"
    /\ ~fused.pending
    /\ i \in DOMAIN tasks
    /\ tasks[i].state = "ready"
    /\ tasks[i].result = Failed
    /\ tasks' = [tasks EXCEPT ![i].state = "consumed"]
    /\ replies' = IF tasks[i].oneshot # 0
                  THEN Append(replies,
                              Reply(tasks[i].oneshot, i,
                                    connect_reply(Failed, FALSE), FALSE, FALSE))
                  ELSE replies
    /\ UNCHANGED <<lp_pc, mailbox, incoming, fused, cur, spawned, exited,
                   regVars, tieVars, netVars, callVars>>

\* select! polls the empty pending set: FuturesUnordered yields None and is
\* terminated until the next push.
LoopPendingEmpty ==
    /\ lp_pc = "select"
    /\ ~fused.pending
    /\ Pending = {}
    /\ fused' = [fused EXCEPT !.pending = TRUE]
    /\ UNCHANGED <<lp_pc, mailbox, incoming, tasks, cur, replies, spawned, exited,
                   regVars, tieVars, netVars, callVars>>

\* complete => break: start returns.
LoopComplete ==
    /\ lp_pc = "select"
    /\ select_complete(fused)
    /\ lp_pc' = "returned"
    /\ UNCHANGED <<mailbox, incoming, fused, tasks, cur, replies, spawned, exited,
                   regVars, tieVars, netVars, callVars>>

\* The request handler of connection c ends and removes its own session.
HandlerExit(c) ==
    /\ c \in spawned
    /\ c.stable_id \notin exited
    /\ LET eff == remove_with_stable_id(connections, c.peer_id, c.stable_id,
                                        "ConnectionLost")
       IN  /\ Apply(eff)
           /\ race' = RaceAfterRemoval(c.peer_id, eff)
    /\ exited' = exited \cup {c.stable_id}
    /\ UNCHANGED <<own, passed, next_stable_id, ret,
                   lp_pc, mailbox, incoming, fused, tasks, cur, replies, spawned,
                   tieVars, netVars, callVars>>

\* The ConnectionManager is dropped before start or while start is suspended
\* in select!: its fields go with it, the mailbox's receiver and the incoming
\* stream with what they hold, and pending_connections with every JoinHandle
\* in it.
Drop ==
    /\ lp_pc \in {"new", "select"}
    /\ lp_pc' = "dropped"
    /\ tasks' = [i \in DOMAIN tasks |-> JoinHandle_drop(tasks[i])]
    /\ mailbox' = [mailbox EXCEPT !.queue = <<>>, !.open = FALSE]
    /\ incoming' = [incoming EXCEPT !.waiting = 0, !.open = FALSE]
    /\ fused' = [mailbox |-> FALSE, incoming |-> FALSE, pending |-> FALSE]
    /\ UNCHANGED <<cur, replies, spawned, exited,
                   regVars, tieVars, netVars, callVars>>

\* The steps of the event loop itself.
LoopStep ==
    \/ \E fails \in BOOLEAN : LoopConnectRequest(fails)
    \/ LoopMailboxClosed
    \/ LoopIncoming
    \/ LoopIncomingEnded
    \/ \E i \in 1..MaxTasks : LoopResultOk(i)
    \/ LoopSendReply
    \/ \E i \in 1..MaxTasks : LoopResultErr(i)
    \/ LoopPendingEmpty
    \/ LoopComplete

LoopNext ==
    \/ SendConnect
    \/ CloseMailbox
    \/ InboundArrives
    \/ IncomingEnds
    \/ Start
    \/ LoopStep
    \/ \E i \in 1..MaxTasks, p \in LoopPeers : TaskResolveOk(i, p)
    \/ \E i \in 1..MaxTasks : TaskResolveErr(i)
    \/ \E c \in spawned : HandlerExit(c)
    \/ Drop

SpecLoop == LoopInit /\ [][LoopNext]_vars

\* The runtime polls the start future whenever one of select!'s branches is
\* ready: a loop that can make a step makes one.  Nothing is assumed of the
\* senders, the remote endpoints, the handshakes or the handlers.
SpecLoopFair ==
    /\ LoopInit
    /\ [][LoopNext]_vars
    /\ WF_vars(LoopStep)

\* ------------------------------------------------------------- helpers
\* The events about peer p, in the order they were sent.
EventsOf(seq, p) == SelectSeq(seq, LAMBDA e : e.peer_id = p)

\* How many events of one type were sent about peer p.
Count(seq, type, p) == Len(SelectSeq(seq, LAMBDA e : e.peer_id = p /\ e.type = type))

\* This step is a call of add with new_connection nc.
AddCalled(nc) ==
    /\ nc.stable_id = next_stable_id
    /\ next_stable_id' = next_stable_id + 1
    /\ passed' = passed \cup {nc}

\* The connections add can be called with in the current state.
Candidates == {Connection(p, o, next_stable_id) : p \in PeerIds, o \in Origins}

\* ------------------------------------------------------------- claims, Spec

\* C1: for every peer p, the sessions for p that were passed to add and that
\* the registry has not closed are exactly the registry's entry for p: at
\* most one, none when p is absent. So the registry never holds a session it
\* closed, and every rejected, displaced or removed session was closed.
C1_OpenSessionsAreTheEntries ==
    \A p \in PeerIds :
        LET open == {c \in passed : c.peer_id = p /\ c.stable_id \notin closed}
        IN  /\ Cardinality(open) <= 1
            /\ open = IF connections[p] = Vacant THEN {} ELSE {connections[p]}

\* A second session for a peer displaced the first one, which is closed.
C1_Witness ==
    \E p \in PeerIds :
        /\ connections[p] # Vacant
        /\ connections[p].stable_id = 2
        /\ \E c \in passed : c.peer_id = p /\ c.stable_id = 1 /\ c.stable_id \in closed

\* C2: for every peer p, the number of NewPeer(p) events minus the number of
\* LostPeer(p, _) events is 1 when p is in the registry and 0 when it is not.
C2_UnmatchedNewPeerIsKeySet ==
    \A p \in PeerIds :
        Count(events, "NewPeer", p) - Count(events, "LostPeer", p)
            = IF p \in peers(connections) THEN 1 ELSE 0

\* A peer is present after two NewPeer events and one LostPeer event.
C2_Witness ==
    \E p \in PeerIds :
        /\ Count(events, "NewPeer", p) = 2
        /\ Count(events, "LostPeer", p) = 1
        /\ p \in peers(connections)

\* The events of one peer alternate NewPeer, LostPeer, NewPeer, ...
Alternates(seq) ==
    \A i \in 1..Len(seq) :
        seq[i].type = IF i % 2 = 1 THEN "NewPeer" ELSE "LostPeer"

\* What a call of add emits when it returns Some: one NewPeer(p), with
\* LostPeer(p, Requested) right before it exactly when p had an entry.
AdmissionEmits ==
    \A nc \in Candidates :
        AddCalled(nc) /\ ret' # None =>
            LET p == nc.peer_id
            IN  events' = events
                          \o (IF connections[p] # Vacant
                              THEN <<LostPeer(p, "Requested")>> ELSE <<>>)
                          \o <<NewPeer(p)>>

\* C3: restricted to one peer p the event sequence alternates NewPeer(p),
\* LostPeer(p, _), ... starting with NewPeer(p); and every successful
\* admission emits exactly one NewPeer(p), with LostPeer(p, Requested) emitted
\* immediately before it exactly when the admission displaced a session.
C3_EventsAlternate ==
    /\ [](\A p \in PeerIds : Alternates(EventsOf(events, p)))
    /\ [][AdmissionEmits]_vars

\* A displacement happened: NewPeer, LostPeer(Requested), NewPeer for one peer.
C3_Witness ==
    \E p \in PeerIds :
        EventsOf(events, p) = <<NewPeer(p), LostPeer(p, "Requested"), NewPeer(p)>>

\* C4: add on its accepting paths. Peer absent: afterwards the registry maps
\* p to the new connection, exactly NewPeer(p) is emitted, nothing is closed
\* and Some(nc) is returned. Peer present and the tie-breaker says replace:
\* the registry maps p to the new connection, the old one is closed, exactly
\* LostPeer(p, Requested) then NewPeer(p) are emitted, Some(nc) is returned.
C4_AdmitAccepts ==
    [][\A nc \in Candidates :
        AddCalled(nc) =>
            LET p == nc.peer_id
                old == connections[p]
            IN  /\ old = Vacant =>
                    /\ connections' = [connections EXCEPT ![p] = nc]
                    /\ events' = Append(events, NewPeer(p))
                    /\ closed' = closed
                    /\ ret' = nc
                /\ (/\ old # Vacant
                    /\ simultaneous_dial_tie_breaking(own, p, old.origin, nc.origin)) =>
                    /\ connections' = [connections EXCEPT ![p] = nc]
                    /\ closed' = closed \cup {old.stable_id}
                    /\ events' = events \o <<LostPeer(p, "Requested"), NewPeer(p)>>
                    /\ ret' = nc
      ]_vars

\* Both accepting paths were taken: a fresh admission and a displacement.
C4_Witness ==
    \E p \in PeerIds :
        /\ events = <<NewPeer(p), LostPeer(p, "Requested"), NewPeer(p)>>
        /\ ret = connections[p]
        /\ ret.stable_id = 2
        /\ closed = {1}

\* C5: when add finds the peer present and the tie-breaker says do not
\* replace, the new connection is closed, None is returned, the registry is
\* unchanged, the existing connection is not closed, no event is emitted.
C5_AdmitRejects ==
    [][\A nc \in Candidates :
        LET p == nc.peer_id
            old == connections[p]
        IN  (/\ AddCalled(nc)
             /\ old # Vacant
             /\ ~simultaneous_dial_tie_breaking(own, p, old.origin, nc.origin)) =>
                /\ closed' = closed \cup {nc.stable_id}
                /\ ret' = None
                /\ connections' = connections
                /\ old.stable_id \notin closed'
                /\ events' = events
      ]_vars

\* A second session for a present peer was rejected by the tie-breaker.
C5_Witness ==
    \E p \in PeerIds :
        /\ connections[p] # Vacant
        /\ connections[p].stable_id = 1
        /\ \E c \in passed : c.peer_id = p /\ c.stable_id = 2
        /\ closed = {2}
        /\ ret = None
        /\ events = <<NewPeer(p)>>

\* C6: self-dial is never admitted: own_peer_id is never a key of the
\* registry and NewPeer(own) is never emitted.
C6_SelfDialNeverAdmitted ==
    /\ own \notin peers(connections)
    /\ Count(events, "NewPeer", own) = 0

\* C8: arrival-order independence. For remote # own, when an Outbound and an
\* Inbound session for remote were passed to add in either order, starting
\* with no entry for remote and with no removal in between, the entry for
\* remote is the Outbound session when own > remote and the Inbound session
\* when own < remote; the survivor arriving first gives a rejection (one
\* NewPeer), arriving second a displacement (NewPeer, LostPeer(Requested),
\* NewPeer); the losing session is closed either way.
C8_ArrivalOrderIndependent ==
    \A p \in PeerIds \ {own} :
        LET adds == race[p].adds
        IN  (Len(adds) = 2 /\ adds[1].origin # adds[2].origin) =>
                LET want == IF own > p THEN "Outbound" ELSE "Inbound"
                    survivor == IF adds[1].origin = want THEN adds[1] ELSE adds[2]
                    loser == IF adds[1].origin = want THEN adds[2] ELSE adds[1]
                    since == SubSeq(events, race[p].mark + 1, Len(events))
                IN  /\ connections[p] = survivor
                    /\ survivor.stable_id \notin closed
                    /\ loser.stable_id \in closed
                    /\ EventsOf(since, p) =
                          IF adds[1] = survivor
                          THEN <<NewPeer(p)>>
                          ELSE <<NewPeer(p), LostPeer(p, "Requested"), NewPeer(p)>>

\* The local node has the greater id and the inbound session arrived first,
\* so the outbound session displaced it.
C8_Witness ==
    \E p \in PeerIds \ {own} :
        /\ own > p
        /\ Len(race[p].adds) = 2
        /\ race[p].adds[1].origin = "Inbound"
        /\ race[p].adds[2].origin = "Outbound"
        /\ connections[p] = race[p].adds[2]

\* ------------------------------------------------------------- claims, SpecTie

\* C7: simultaneous_dial_tie_breaking returns a boolean for every combination
\* of its four arguments, and it is the rule table's: (Inbound, Inbound) and
\* (Outbound, Outbound) give true; (Inbound existing, Outbound new) gives
\* true iff remote < own; (Outbound existing, Inbound new) gives true iff
\* own < remote.
C7_TieBreakerIsRuleTable ==
    \A c \in tie.calls :
        /\ c.result \in BOOLEAN
        /\ c.existing = c.new => c.result = TRUE
        /\ (c.existing = "Inbound" /\ c.new = "Outbound") =>
               (c.result <=> c.remote < c.own)
        /\ (c.existing = "Outbound" /\ c.new = "Inbound") =>
               (c.result <=> c.own < c.remote)

\* All four calls were made for a cross case with different peers: both
\* cross rows of the table were used, with both answers.
C7_Witness ==
    /\ Cardinality(tie.calls) = 4
    /\ \E c \in tie.calls : c.existing = "Inbound" /\ c.new = "Outbound" /\ c.result
    /\ \E c \in tie.calls : c.existing = "Inbound" /\ c.new = "Outbound" /\ ~c.result
    /\ \E c \in tie.calls : c.existing = "Outbound" /\ c.new = "Inbound" /\ c.result
    /\ \E c \in tie.calls : c.existing = "Outbound" /\ c.new = "Inbound" /\ ~c.result

\* The session a call keeps, named by its origin at the node c.own.
Kept(c) == IF c.result THEN c.new ELSE c.existing

\* The same session's origin at the other end.
Flip(o) == IF o = "Inbound" THEN "Outbound" ELSE "Inbound"

\* C10: in the cross cases (own # remote, existing origin # new origin),
\* swapping only the two origins flips the result, swapping only own and
\* remote flips the result, and swapping both leaves it as it is; so the
\* other end, which sees the swapped race, keeps the same session.
C10_TieBreakerAntisymmetric ==
    \A c \in tie.calls, d \in tie.calls :
        (c.own # c.remote /\ c.existing # c.new) =>
            /\ (d.own = c.own /\ d.remote = c.remote
                /\ d.existing = c.new /\ d.new = c.existing) =>
                   d.result # c.result
            /\ (d.own = c.remote /\ d.remote = c.own
                /\ d.existing = c.existing /\ d.new = c.new) =>
                   d.result # c.result
            /\ (d.own = c.remote /\ d.remote = c.own
                /\ d.existing = c.new /\ d.new = c.existing) =>
                   /\ d.result = c.result
                   /\ Kept(d) = Flip(Kept(c))

\* A cross case with different peers, called all four ways.
C10_Witness ==
    /\ tie.own # tie.remote
    /\ tie.existing # tie.new
    /\ Cardinality(tie.calls) = 4
    /\ \E c \in tie.calls, d \in tie.calls : c.result /\ ~d.result

\* ------------------------------------------------------------- claims, SpecNet

\* The dialer with the greater PeerId.
Greater == CHOOSE d \in net_pair : \A m \in net_pair : m <= d

\* Both handshakes were processed at both nodes, and every handler whose
\* session was closed has made its removal call.
NetQuiescent ==
    /\ \A n \in net_pair, d \in net_pair : net_hs[n][d] = "processed"
    /\ \A n \in net_pair, d \in net_pair :
           net_handler[n][d] = "running" => ~SessionClosed(d)

\* C9: two peers dial each other at the same time. Under every interleaving
\* of the two nodes' admissions and of the handlers' removals, once both
\* handshakes were processed at both nodes and the triggered removals ran,
\* both registries hold the session dialed by the peer with the greater
\* PeerId, which nobody closed, and both nodes closed the other session.
C9_TwoNodesConverge ==
    NetQuiescent =>
        \A n \in net_pair :
            /\ net_reg[n].connections[Other(n)] = NetView(n, Greater)
            /\ net_sid[n][Greater] \notin net_reg[n].closed
            /\ net_sid[n][Other(Greater)] \in net_reg[n].closed

\* A quiescent state reached through a handler's removal: one node had
\* admitted the losing session and lost it when the other end closed it.
C9_Witness ==
    /\ net_pair # {}
    /\ NetQuiescent
    /\ \E n \in net_pair :
           /\ net_reg[n].events = <<NewPeer(Other(n)),
                                    LostPeer(Other(n), "ConnectionLost"),
                                    NewPeer(Other(n))>>
           /\ net_handler[n][Other(Greater)] = "exited"

\* ------------------------------------------------------------- claims, SpecCalls

\* The map after the i-th logged call.
MapAfter(i) == IF i < Len(log) THEN log[i + 1].before ELSE connections

\* C12: remove(p, reason) is unconditional and idempotent. With p present it
\* deletes the entry whatever its stable id, closes the held connection and
\* emits exactly LostPeer(p, reason); with p absent it changes nothing, closes
\* nothing and emits nothing. Two calls of remove(p, _) in a row leave the
\* map as the first one did, and emit at most one event together.
C12_RemoveUnconditionalIdempotent ==
    \A i \in 1..Len(log) :
        log[i].op = "remove" =>
            LET c == log[i]
                p == c.peer_id
            IN  /\ c.before[p] # Vacant =>
                    /\ MapAfter(i) = [c.before EXCEPT ![p] = Vacant]
                    /\ c.shut = {c.before[p].stable_id}
                    /\ c.sent = <<LostPeer(p, c.reason)>>
                /\ c.before[p] = Vacant =>
                    /\ MapAfter(i) = c.before
                    /\ c.shut = {}
                    /\ c.sent = <<>>
                /\ (i < Len(log) /\ log[i + 1].op = "remove" /\ log[i + 1].peer_id = p) =>
                    /\ MapAfter(i + 1) = MapAfter(i)
                    /\ Len(c.sent) + Len(log[i + 1].sent) <= 1
                    /\ log[i + 1].shut = {}

\* A present peer was removed twice in a row: the first call sent LostPeer,
\* the second did nothing.
C12_Witness ==
    /\ Len(log) = 3
    /\ log[1].op = "add"
    /\ log[2].op = "remove" /\ log[2].peer_id = log[1].peer_id
    /\ log[3].op = "remove" /\ log[3].peer_id = log[1].peer_id
    /\ log[2].reason = "ConnectionLost"
    /\ events = <<NewPeer(log[1].peer_id), LostPeer(log[1].peer_id, "ConnectionLost")>>

\* A subscriber's view: the key set after applying events to it in order;
\* ok is FALSE when an event does not fit (NewPeer of a peer already in the
\* set, LostPeer of one that is not): a gap or a duplicate.
RECURSIVE Replay(_, _)
Replay(ps, seq) ==
    IF seq = <<>>
    THEN [ok |-> TRUE, peers |-> ps]
    ELSE LET e == Head(seq)
         IN  IF e.type = "NewPeer"
             THEN IF e.peer_id \in ps
                  THEN [ok |-> FALSE, peers |-> ps]
                  ELSE Replay(ps \cup {e.peer_id}, Tail(seq))
             ELSE IF e.peer_id \notin ps
                  THEN [ok |-> FALSE, peers |-> ps]
                  ELSE Replay(ps \ {e.peer_id}, Tail(seq))

\* C13: subscribe is atomic with respect to the mutations: initial_peers is
\* the key set at one point of the mutation order (the key set the events
\* sent before that point add up to), the receiver gets exactly the events
\* sent after that point, in order, and applying them to initial_peers gives
\* the current key set (the subscriber keeping up with the channel).
C13_SubscribeAtomic ==
    sub # NoSub =>
        LET before == Replay({}, SubSeq(events, 1, sub.next))
            after == Replay(sub.initial_peers, SubSeq(events, sub.next + 1, Len(events)))
        IN  /\ sub.next \in 0..Len(events)
            /\ before.ok
            /\ sub.initial_peers = before.peers
            /\ after.ok
            /\ after.peers = peers(connections)

\* A subscription made between mutations: a peer was there already, and
\* events were sent afterwards.
C13_Witness ==
    /\ sub # NoSub
    /\ sub.initial_peers # {}
    /\ sub.next >= 1
    /\ Len(events) > sub.next
    /\ peers(connections) # sub.initial_peers

\* The step in which the handler of connection c ends.
HandlerExits(c) == c.stable_id \notin exited /\ exited' = exited \cup {c.stable_id}

\* The entry of peer p is not the session with stable id s.
NotTheSession(p, s) == connections[p] = Vacant \/ connections[p].stable_id # s

\* C11: remove_with_stable_id(p, s, reason) does nothing when p is absent or
\* its entry has another stable id: the map stays as it is, no event is sent
\* and no connection is closed.  So the handler of a displaced session that
\* ends late leaves the session that displaced it in place and sends no
\* second LostPeer.
C11_StaleRemovalIsNoOp ==
    /\ [](\A p \in PeerIds, s \in StableIds, r \in Reasons :
            NotTheSession(p, s) =>
                remove_with_stable_id(connections, p, s, r)
                    = Effect(connections, {}, <<>>, None))
    /\ [][\A c \in spawned :
            (HandlerExits(c) /\ NotTheSession(c.peer_id, c.stable_id)) =>
                UNCHANGED <<connections, events, closed>>]_vars

\* Session 1 was displaced by session 2, its handler ended afterwards, and
\* session 2 is still the entry; the only LostPeer is the displacement's.
C11_Witness ==
    /\ 1 \in exited
    /\ 2 \notin exited
    /\ \E p \in PeerIds : connections[p] # Vacant /\ connections[p].stable_id = 2
    /\ Len(events) = 3
    /\ events[2].type = "LostPeer"
    /\ 1 \in closed

\* The last event sent about peer p is a LostPeer.
LastIsLost(p) ==
    LET of_p == EventsOf(events, p)
    IN  of_p # <<>> /\ of_p[Len(of_p)].type = "LostPeer"

\* C14 as stated: whenever Ok(p) is sent on a reply channel, p is a key of the
\* registry at the moment the reply is sent.
C14_ReplyOkMeansConnected ==
    \A i \in DOMAIN replies : replies[i].ok => replies[i].connected

\* C14, amended: whenever Ok(p) is sent on a reply channel, p was a key of the
\* registry when the add call for that handshake returned, whether the dialed
\* session was admitted or rejected; between that call and the send the lock
\* is free, and p is missing at the send only if a removal sent LostPeer(p)
\* in between.
C14_ReplyOkMeansWasKey ==
    /\ \A i \in DOMAIN replies : replies[i].ok => replies[i].was_key
    /\ lp_pc = "reply" =>
        /\ cur.was_key
        /\ cur.peer_id \notin peers(connections) => LastIsLost(cur.peer_id)

\* Ok(p) was sent for a handshake whose add left p in the registry, after the
\* handler of p's session had removed it again.
C14_Witness ==
    \E i \in DOMAIN replies :
        /\ replies[i].ok
        /\ replies[i].was_key
        /\ ~replies[i].connected
        /\ LastIsLost(replies[i].peer_id)

\* C15: the value replied to a Connect request follows from the handshake's
\* result alone: Ok(peer_id) for Ok(connection), when add admitted the
\* connection and when it rejected it by tie-breaking, and Err(e) for a failed
\* dial or handshake.
C15_ReplyFollowsHandshake ==
    \A i \in DOMAIN replies :
        LET r == replies[i]
            t == tasks[r.task]
        IN  /\ t.oneshot = r.request
            /\ t.state = "consumed"
            /\ t.result # Failed => (r.ok /\ r.peer_id = t.result.peer_id)
            /\ t.result = Failed => ~r.ok

\* Ok(p) was sent for a dialed session that lost the tie-break and was closed.
C15_Witness ==
    \E i \in DOMAIN replies :
        LET t == tasks[replies[i].task]
        IN  /\ replies[i].ok
            /\ ~t.admitted
            /\ t.result.stable_id \in closed
            /\ replies[i].peer_id \in peers(connections)

\* The step in which the loop takes the failed handshake of task i.
ErrConsumed(i) ==
    /\ tasks[i].state = "ready"
    /\ tasks[i].result = Failed
    /\ tasks'[i].state = "consumed"

\* The step in which handle_connect_request meets a failing endpoint.connect.
DialFailed ==
    /\ Len(tasks') = Len(tasks) + 1
    /\ tasks'[Len(tasks')].result = Failed

\* C16: a failed dial or handshake has no effect on the registry: the step
\* that meets a failing endpoint.connect and the step that takes a handshake
\* resolved to an error leave the map as it is, send no event, close nothing
\* and spawn no handler; the error goes to the reply channel if there is one
\* (at once for a failed handshake, as the task's result for a failed dial),
\* and the loop is back in select!.
C16_FailureLeavesRegistryAlone ==
    [][/\ \A i \in DOMAIN tasks :
            ErrConsumed(i) =>
                /\ UNCHANGED <<connections, events, closed, passed, spawned>>
                /\ replies' = IF tasks[i].oneshot # 0
                              THEN Append(replies,
                                          [request |-> tasks[i].oneshot, task |-> i,
                                           ok |-> FALSE, peer_id |-> 0,
                                           was_key |-> FALSE, connected |-> FALSE])
                              ELSE replies
                /\ lp_pc' = "select"
       /\ DialFailed =>
            /\ UNCHANGED <<connections, events, closed, passed, spawned, replies>>
            /\ tasks'[Len(tasks')].state = "ready"
            /\ tasks'[Len(tasks')].oneshot # 0
            /\ lp_pc' = "select"]_vars

\* A dial failed and its request got Err; the loop then completed a later
\* request, which was admitted and got Ok.
C16_Witness ==
    /\ Len(replies) = 2
    /\ ~replies[1].ok
    /\ replies[2].ok
    /\ tasks[replies[1].task].result = Failed
    /\ tasks[replies[2].task].admitted
    /\ events = <<NewPeer(replies[2].peer_id)>>

\* The tasks whose completed handshake the loop has taken.
ConsumedOk == {i \in DOMAIN tasks : tasks[i].state = "consumed" /\ tasks[i].result # Failed}

\* C20: each completed handshake is consumed once by the loop: the
\* connections passed to add are those of the handshakes taken, a handler was
\* spawned for exactly those add returned Some for, and the others were
\* closed by add and have no handler.  So there are as many handlers as
\* NewPeer events.
C20_HandlerIffAdmitted ==
    /\ passed = {tasks[i].result : i \in ConsumedOk}
    /\ spawned = {tasks[i].result : i \in {j \in ConsumedOk : tasks[j].admitted}}
    /\ \A i \in ConsumedOk :
            ~tasks[i].admitted =>
                /\ tasks[i].result.stable_id \in closed
                /\ tasks[i].result \notin spawned
    /\ Cardinality(spawned) = Len(SelectSeq(events, LAMBDA e : e.type = "NewPeer"))

\* Two handshakes were taken: one was admitted and has a handler, the other
\* lost the tie-break, was closed and has none.
C20_Witness ==
    /\ Cardinality(ConsumedOk) = 2
    /\ Cardinality(spawned) = 1
    /\ \E i \in ConsumedOk : ~tasks[i].admitted /\ tasks[i].result.stable_id \in closed
    /\ Len(events) = 1

NewPeerCount(seq) == Len(SelectSeq(seq, LAMBDA e : e.type = "NewPeer"))

\* C18: dropping the ConnectionManager aborts every handshake task in the
\* pending set, and from then on no task's output is consumed: no connection
\* is passed to add, no NewPeer is sent, no handler is spawned and no reply is
\* sent.
C18_DropAbortsPending ==
    /\ [](lp_pc = "dropped" => Pending = {})
    /\ [][lp_pc = "dropped" =>
            /\ UNCHANGED <<tasks, passed, spawned, replies>>
            /\ NewPeerCount(events') = NewPeerCount(events)]_vars

\* The manager was dropped with a Connect's handshake still running and
\* another handshake completed but not taken: both are aborted, and the
\* completed connection never reached the registry.
C18_Witness ==
    /\ lp_pc = "dropped"
    /\ \E i \in DOMAIN tasks :
        /\ tasks[i].state = "aborted"
        /\ tasks[i].result = Unresolved
        /\ tasks[i].oneshot # 0
    /\ \E i \in DOMAIN tasks :
        /\ tasks[i].state = "aborted"
        /\ tasks[i].result \notin {Unresolved, Failed}
        /\ tasks[i].result \notin passed
    /\ replies = <<>>

\* Nothing is left for the loop: the mailbox is closed and drained, the
\* incoming stream has ended and no handshake is pending.
Exhausted ==
    /\ mailbox.queue = <<>>
    /\ ~mailbox.open
    /\ incoming.waiting = 0
    /\ ~incoming.open
    /\ Pending = {}

\* C17: start returns only when the mailbox is closed and drained, the
\* incoming stream has ended and the pending set is empty (so never with a
\* handshake pending, and not on a pending set that was empty earlier and has
\* been pushed to since); and once the three hold, a loop that is scheduled
\* returns, unless it is dropped first.
C17_ReturnsWhenExhausted ==
    /\ [](lp_pc = "returned" => (Exhausted /\ select_complete(fused)))
    /\ (lp_pc \in {"select", "reply"} /\ Exhausted) ~> (lp_pc \in {"returned", "dropped"})

\* start returned after the loop had taken every handshake it was given and
\* replied to a request.
C17_Witness ==
    /\ lp_pc = "returned"
    /\ Len(tasks) = MaxTasks
    /\ \A i \in DOMAIN tasks : tasks[i].state = "consumed"
    /\ replies # <<>>

\* A reply was sent for task i.
Replied(i) == \E k \in DOMAIN replies : replies[k].task = i

\* No request's resolved handshake is waiting for its reply.
NoReplyOwed ==
    \A i \in DOMAIN tasks :
        (tasks[i].oneshot # 0 /\ tasks[i].state \in {"ready", "consumed"}) => Replied(i)

\* C19: every Connect request taken from the mailbox whose handshake resolves
\* gets a reply, as long as the loop is scheduled and not dropped (a resolved
\* handshake stays owed its reply until the reply is sent, so no reply is
\* owed forever exactly when the loop comes back, again and again, to a state
\* where none is owed), and never more than one; an Ok reply is sent only
\* after add was called with the handshake's connection; and a handshake
\* from the incoming stream gets no reply.
C19_ResolvedRequestGetsOneReply ==
    /\ [](\A k1, k2 \in DOMAIN replies :
            replies[k1].request = replies[k2].request => k1 = k2)
    /\ [](\A k \in DOMAIN replies :
            LET t == tasks[replies[k].task]
            IN  /\ t.oneshot # 0
                /\ t.oneshot = replies[k].request
                /\ t.origin = "Outbound"
                /\ t.state = "consumed"
                /\ replies[k].ok => t.result \in passed)
    /\ []<>(lp_pc = "dropped" \/ NoReplyOwed)

\* Two Connect requests were both answered Ok, each once, after add had been
\* called with the connection of each.
C19_Witness ==
    /\ Len(replies) = 2
    /\ replies[1].ok
    /\ replies[2].ok
    /\ replies[1].request # replies[2].request
    /\ \A i \in DOMAIN tasks : tasks[i].result \in passed

====
